---- MODULE Spec2Model ----
(***************************************************************************)
(* State-machine model of ageDB_scratch.py: the option parser              *)
(* (parse_option), model assembly (set_model), the training pass (train),  *)
(* the evaluation pass (validate) and the epoch loop with its resume and   *)
(* checkpoint logic (main).                                                *)
(*                                                                         *)
(* Representation.                                                         *)
(*  - A Python string is a sequence of tokens (TLA+ strings); the token    *)
(*    set is uniquely decodable, so two token sequences are equal exactly  *)
(*    when the character strings they stand for are equal.  Concatenation  *)
(*    of strings is \o.  A path is the sequence of its '/'-separated       *)
(*    components.                                                          *)
(*  - A float option is kept in units of 0.0001 (2000 stands for 0.2) and  *)
(*    formatted by FormatFloat as Python's '{}'.format does.               *)
(*  - A mean absolute error is kept as its base-10 exponent, which keeps   *)
(*    the order: the initial best_error 1e10 is BestErrorInit = 10.        *)
(*  - The parameters of the network and the state of the optimizer are     *)
(*    version numbers: the number of optimizer steps that produced them.   *)
(***************************************************************************)
EXTENDS Integers, Sequences, FiniteSets, TLC

VARIABLES
    fs,            \* the file system: path -> contents of a checkpoint file
    cuda,          \* torch.cuda.is_available() on this host
    runs,          \* number of times the program has been started
    fsAtStart,     \* history: the file system when this run was started
    pc,            \* position of the running process in main()
    failedAt,      \* where the process raised ("" while it has not)
    opt,           \* the options record returned by parse_option
    model_name,    \* opt.model_name
    save_folder,   \* opt.save_folder
    resume_file,   \* contents of the file at opt.resume, as torch.load reads it
    model,         \* network parameters (version)
    optimizer,     \* optimizer state (version)
    criterion,     \* the criterion object built by set_model
    device,        \* where set_model left the model: "cuda" or "cpu"
    start_epoch,   \* main: start_epoch
    epoch,         \* main: the loop variable
    idx,           \* train: index of the batch being processed
    loss,          \* train: how the loss of the current batch was computed
    grads,         \* train: state of the gradients, "stale" | "zero" | "fresh"
    valid_error,   \* main: result of validate(val_loader)
    test_error,    \* main: result of validate(test_loader)
    is_best,       \* main: is_best
    best_error,    \* main: best_error
    best_test,     \* main: best_test
    hist,          \* history: validation MAE of every epoch of this run so far
    histTest,      \* history: test result of every epoch of this run so far
    executed,      \* history: the epochs whose body this run has entered
    log,           \* history: the steps of the current epoch, in order
    written,       \* history: the checkpoint writes of this run, in order
    losses,        \* history: the loss computations of this run's batches
    valModel,      \* history: the parameters the last validation pass ran on
    prevOpt,       \* the options of the previous parse (parser specification)
    prevName       \* the folder name of the previous parse

vars == <<fs, cuda, runs, fsAtStart, pc, failedAt, opt, model_name,
          save_folder, resume_file, model, optimizer, criterion, device,
          start_epoch,
          epoch, idx, loss, grads, valid_error, test_error, is_best,
          best_error, best_test, hist, histTest, executed, log, written,
          losses, valModel, prevOpt, prevName>>

(***************************************************************************)
(* Bounds of the model.                                                    *)
(***************************************************************************)
MaxRuns == 2
MaxEpochs == 3
MaxSaveFreq == 2
MaxMAE == 2
TrainSetSize == 2

(***************************************************************************)
(* Program constants.                                                      *)
(***************************************************************************)
BestErrorInit == 10

\* A value that is no parameter version, epoch or error: a variable that
\* has not been assigned yet.
None == 0 - 1

(***************************************************************************)
(* String formatting.                                                      *)
(***************************************************************************)
DigitStr == <<"0", "1", "2", "3", "4", "5", "6", "7", "8", "9">>

RECURSIVE FormatInt(_)
FormatInt(n) ==
    IF n < 10 THEN <<DigitStr[n + 1]>>
    ELSE FormatInt(n \div 10) \o <<DigitStr[(n % 10) + 1]>>

\* The w low decimal digits of f, zero-padded.
RECURSIVE FormatDigits(_, _)
FormatDigits(f, w) ==
    IF w = 0 THEN <<>>
    ELSE FormatDigits(f \div 10, w - 1) \o <<DigitStr[(f % 10) + 1]>>

\* The w-digit fraction f without its trailing zeros; one digit is kept.
RECURSIVE FormatFraction(_, _)
FormatFraction(f, w) ==
    IF w > 1 /\ f % 10 = 0 THEN FormatFraction(f \div 10, w - 1)
    ELSE FormatDigits(f, w)

\* '{}'.format(x) of the float x = t / 10000, x = 0 or x >= 0.0001: the
\* shortest decimal that reads back as x
FormatFloat(t) ==
    FormatInt(t \div 10000) \o <<".">> \o FormatFraction(t % 10000, 4)

\* s.split('/')[-2]; IndexError when s has fewer than two components
HasParent(path) == Len(path) >= 2
ParentName(path) == path[Len(path) - 1]

\* os.path.join(a, b) for a relative component b
PathJoin(dir, name) == Append(dir, name)

\* opt.model_path = './save/{}_models'.format(opt.dataset)
ModelPath(o) == << <<".">>, <<"save">>, o.dataset \o <<"_", "models">> >>

\* Mutation of FormattedName: the batch size is left out of the name.
FormattedNameWithoutBatchSize(o) ==
    o.loss \o <<"_">> \o o.dataset \o <<"_">> \o o.model
      \o <<"_", "ep", "_">> \o FormatInt(o.epochs)
      \o <<"_", "lr", "_">> \o FormatFloat(o.learning_rate)
      \o <<"_", "d", "_">> \o FormatFloat(o.lr_decay_rate)
      \o <<"_", "wd", "_">> \o FormatFloat(o.weight_decay)
      \o <<"_", "alpha", "_">> \o FormatFloat(o.alpha)
      \o <<"_", "mmt", "_">> \o FormatFloat(o.momentum)
      \o <<"_", "aug", "_">> \o o.aug
      \o <<"_", "trial", "_">> \o o.trial

\* The name formatted from the hyperparameters.
FormattedName(o) ==
    o.loss \o <<"_">> \o o.dataset \o <<"_">> \o o.model
      \o <<"_", "ep", "_">> \o FormatInt(o.epochs)
      \o <<"_", "lr", "_">> \o FormatFloat(o.learning_rate)
      \o <<"_", "d", "_">> \o FormatFloat(o.lr_decay_rate)
      \o <<"_", "wd", "_">> \o FormatFloat(o.weight_decay)
      \o <<"_", "alpha", "_">> \o FormatFloat(o.alpha)
      \o <<"_", "mmt", "_">> \o FormatFloat(o.momentum)
      \o <<"_", "bsz", "_">> \o FormatInt(o.batch_size)
      \o <<"_", "aug", "_">> \o o.aug
      \o <<"_", "trial", "_">> \o o.trial

\* Mutation of ModelName: a resume path does not change the name.
ModelNameOfOptions(o) == FormattedName(o)

\* opt.model_name
ModelName(o) ==
    IF Len(o.resume) > 0 THEN ParentName(o.resume) ELSE FormattedName(o)

\* opt.save_folder
SaveFolder(o) == PathJoin(ModelPath(o), ModelName(o))

\* parse_option raises when --resume is given without a '/'
ParseRaises(o) == Len(o.resume) > 0 /\ ~HasParent(o.resume)

(***************************************************************************)
(* Checkpoint files.                                                       *)
(***************************************************************************)
BestName == <<"best", ".pth">>
CkptName(e) == <<"ckpt", "_", "epoch", "_">> \o FormatInt(e) \o <<".pth">>

\* save_file_best
BestFile(folder) == PathJoin(folder, BestName)
\* the periodic save_file of epoch e
CkptFile(folder, e) == PathJoin(folder, CkptName(e))

\* Mutation of BestContents: the best checkpoint has the periodic schema
\* plus best_error.
BestContentsWithOptimizer(e, m, b) ==
    [epoch |-> e, model |-> m, optimizer |-> m, best_error |-> b]

\* The object main hands to torch.save for the best checkpoint.
BestContents(e, m, b) == [epoch |-> e, model |-> m, best_error |-> b]

\* The object save_model stores for a periodic checkpoint.
PeriodicContents(e, m, o) == [epoch |-> e, model |-> m, optimizer |-> o]

\* The keys main reads from a resume checkpoint, in the order it reads them.
ResumeKeys == <<"model", "optimizer", "epoch">>
ResumeRaises(ck) == \E i \in 1..Len(ResumeKeys) : ResumeKeys[i] \notin DOMAIN ck

\* torch.save(obj, path)
TorchSave(files, path, obj) ==
    [p \in DOMAIN files \cup {path} |-> IF p = path THEN obj ELSE files[p]]

(***************************************************************************)
(* Options.                                                                *)
(***************************************************************************)
\* The loss names the program tests for, and one it does not know.
FarNames == {<<"FAR">>, <<"FAR-EXP">>}
RecognizedNames ==
    FarNames \cup {<<"ConR">>, <<"ranksim">>, <<"focal-l1">>, <<"focal-mse">>}
LossNames == RecognizedNames \cup {<<"mse">>}

\* argparse's defaults.
DefaultOptions ==
    [print_freq |-> 10, save_freq |-> 100, save_curr_freq |-> 1,
     batch_size |-> 256, num_workers |-> 1, epochs |-> 400,
     learning_rate |-> 2000, lr_decay_rate |-> 1000, weight_decay |-> 1,
     momentum |-> 9000, alpha |-> 10000, trial |-> <<"0">>, loss |-> <<"FAR">>,
     data_folder |-> << <<"..">>, <<"Rank-N-Contrast">>, <<"data">> >>,
     dataset |-> <<"AgeDB">>, model |-> <<"resnet18">>, resume |-> <<>>,
     aug |-> <<"crop", ",", "flip", ",", "color", ",", "grayscale">>]

\* The command lines of the training specification.
RunOptions ==
    { [DefaultOptions EXCEPT !.epochs = n, !.save_freq = f,
                             !.batch_size = b, !.loss = l] :
        n \in 1..MaxEpochs, f \in 1..MaxSaveFreq,
        b \in 1..TrainSetSize, l \in LossNames }

\* len(train_loader): the DataLoader keeps the last, smaller batch
NumBatches(o) == (TrainSetSize + o.batch_size - 1) \div o.batch_size

\* Checkpoint files that lie outside the save tree, and what they may hold:
\* a checkpoint of the periodic schema, or one with some of its keys missing.
ExternalDir == << <<"..">>, <<"backup">> >>
Restrict(ck, keys) == [k \in keys |-> ck[k]]
ExternalFiles ==
    { Restrict(PeriodicContents(e, e, e), keys) :
        e \in {1, MaxEpochs}, keys \in SUBSET {"epoch", "model", "optimizer"} }

(***************************************************************************)
(* set_model                                                               *)
(***************************************************************************)
\* Mutation of SetCriterion: an unknown name gets another default.
SetCriterionOtherDefault(o) ==
    IF o.loss \in FarNames THEN "FAR"
    ELSE IF o.loss \in RecognizedNames THEN "L1Loss"
    ELSE "MSELoss"

SetCriterion(o) == IF o.loss \in FarNames THEN "FAR" ELSE "L1Loss"
SetDevice(hasCuda) == IF hasCuda THEN "cuda" ELSE "cpu"

(***************************************************************************)
(* train                                                                   *)
(***************************************************************************)
\* How train computes the loss of a batch: the function applied to
\* (output, labels) and the regularizer added to it.
BatchLoss(o, crit) ==
    IF o.loss = <<"ConR">> THEN [fn |-> crit, reg |-> "ConR"]
    ELSE IF o.loss = <<"ranksim">>
      THEN [fn |-> crit, reg |-> "batchwise_ranking_regularizer"]
    ELSE IF o.loss = <<"focal-l1">>
      THEN [fn |-> "weighted_focal_l1_loss", reg |-> ""]
    ELSE IF o.loss = <<"focal-mse">>
      THEN [fn |-> "weighted_focal_mse_loss", reg |-> ""]
    ELSE [fn |-> crit, reg |-> ""]

(***************************************************************************)
(* validate                                                                *)
(***************************************************************************)
\* validate moves every batch to the accelerator unconditionally.
ValidateRaises(hasCuda) == ~hasCuda

\* [MAE, RMSE, Pearson, Spearman, R2] of a pass whose mean absolute error
\* is m; only the first entry is read by the epoch loop.
EvalResult(m) == <<m, m, 0, 0, 0>>

\* Mean absolute errors a pass may return: below 1e10, and 1e10 itself.
MAEValues == (1..MaxMAE) \cup {BestErrorInit}
TestValues == 1..MaxMAE

(***************************************************************************)
(* main                                                                    *)
(***************************************************************************)
IsBest(valid, best) == valid[1] < best
\* Python's min(a, b)
PyMin(a, b) == IF b < a THEN b ELSE a
SentinelResult == <<BestErrorInit, BestErrorInit, BestErrorInit,
                    BestErrorInit, BestErrorInit>>
\* Mutation of PeriodicDue: the epochs are counted from 0.
PeriodicDueFromZero(e, o) == (e - 1) % o.save_freq = 0

\* epoch % opt.save_freq == 0
PeriodicDue(e, o) == e % o.save_freq = 0
\* range(start_epoch, opt.epochs + 1) is exhausted
LoopExhausted(e, o) == e > o.epochs

NoResult == <<>>
NoLoss == [fn |-> "", reg |-> ""]

\* The locals of a process that has just been started.
FreshProcess ==
    /\ model' = None /\ optimizer' = None
    /\ criterion' = "" /\ device' = ""
    /\ start_epoch' = None /\ epoch' = None /\ idx' = None
    /\ loss' = NoLoss /\ grads' = "stale"
    /\ valid_error' = NoResult /\ test_error' = NoResult
    /\ is_best' = FALSE /\ best_error' = None /\ best_test' = NoResult
    /\ hist' = <<>> /\ histTest' = <<>> /\ executed' = <<>> /\ log' = <<>>
    /\ written' = <<>> /\ losses' = {} /\ valModel' = None

Init ==
    /\ fs = <<>>
    /\ cuda \in BOOLEAN
    /\ runs = 0
    /\ fsAtStart = <<>>
    /\ pc = "Idle"
    /\ failedAt = ""
    /\ opt \in RunOptions
    /\ model_name = <<>> /\ save_folder = <<>> /\ resume_file = <<>>
    /\ model = None /\ optimizer = None
    /\ criterion = "" /\ device = ""
    /\ start_epoch = None /\ epoch = None /\ idx = None
    /\ loss = NoLoss /\ grads = "stale"
    /\ valid_error = NoResult /\ test_error = NoResult
    /\ is_best = FALSE /\ best_error = None /\ best_test = NoResult
    /\ hist = <<>> /\ histTest = <<>> /\ executed = <<>> /\ log = <<>>
    /\ written = <<>> /\ losses = {} /\ valModel = None
    /\ prevOpt = <<>> /\ prevName = <<>>

\* The process raised in `where` and is gone.
Raise(where) == pc' = "Failed" /\ failedAt' = where

\* parse_option, for a command line whose --resume is `path` and the file
\* `file` at that path.
Parse(path, file) ==
    /\ pc \in {"Idle", "Done", "Failed"}
    /\ runs < MaxRuns
    /\ runs' = runs + 1
    /\ fsAtStart' = fs
    /\ FreshProcess
    /\ opt' = [opt EXCEPT !.resume = path]
    /\ resume_file' = file
    /\ IF ParseRaises(opt')
         THEN /\ pc' = "Failed" /\ failedAt' = "parse_option"
              /\ model_name' = <<>> /\ save_folder' = <<>>
         ELSE /\ pc' = "set_model" /\ failedAt' = ""
              /\ model_name' = ModelName(opt')
              /\ save_folder' = SaveFolder(opt')
    /\ UNCHANGED <<fs, cuda, prevOpt, prevName>>

\* The program is started without --resume.
StartFresh == Parse(<<>>, <<>>)

\* The program is started with --resume naming a file of the save tree.
StartResumeOwn == \E path \in DOMAIN fs : Parse(path, fs[path])

\* The program is started with --resume naming a file outside the save tree.
StartResumeExternal ==
    \E e \in 1..MaxEpochs, file \in ExternalFiles :
        Parse(PathJoin(ExternalDir, CkptName(e)), file)

\* The program is started with --resume naming a file of the working
\* directory by its bare name.
StartResumeBare ==
    \E file \in ExternalFiles : Parse(<<CkptName(1)>>, file)

\* set_loader, set_model and set_optimizer: the model and the optimizer are
\* new, the criterion is chosen by the loss name.
SetModel ==
    /\ pc = "set_model"
    /\ criterion' = SetCriterion(opt)
    /\ device' = SetDevice(cuda)
    /\ model' = 0
    /\ optimizer' = 0
    /\ pc' = "resume"
    /\ UNCHANGED <<fs, cuda, runs, fsAtStart, failedAt, opt, model_name,
                   save_folder, resume_file, start_epoch, epoch, idx, loss,
                   grads, valid_error, test_error, is_best, best_error,
                   best_test, hist, histTest, executed, log, written, losses,
                   valModel, prevOpt, prevName>>

\* main, from start_epoch = 1 to save_file_best: the resume checkpoint is
\* loaded when one is named, then the best-error tracking is initialised.
Resume ==
    /\ pc = "resume"
    /\ IF Len(opt.resume) > 0 /\ ResumeRaises(resume_file)
         THEN /\ Raise("resume")
              /\ UNCHANGED <<model, optimizer, start_epoch, epoch, best_error,
                             best_test>>
         ELSE /\ IF Len(opt.resume) > 0
                   THEN /\ model' = resume_file.model
                        /\ optimizer' = resume_file.optimizer
                        /\ start_epoch' = resume_file.epoch + 1
                   ELSE /\ start_epoch' = 1
                        /\ UNCHANGED <<model, optimizer>>
              /\ best_error' = BestErrorInit
              /\ best_test' = SentinelResult
              /\ epoch' = start_epoch'
              /\ pc' = "loop"
              /\ UNCHANGED failedAt
    /\ UNCHANGED <<fs, cuda, runs, fsAtStart, opt, model_name, save_folder,
                   resume_file, criterion, device, idx, loss, grads,
                   valid_error, test_error, is_best, hist, histTest, executed,
                   log, written, losses, valModel, prevOpt, prevName>>

\* The epoch loop is exhausted: main returns.
Finish ==
    /\ pc = "loop"
    /\ LoopExhausted(epoch, opt)
    /\ pc' = "Done"
    /\ UNCHANGED <<fs, cuda, runs, fsAtStart, failedAt, opt, model_name,
                   save_folder, resume_file, model, optimizer, criterion,
                   device, start_epoch, epoch, idx, loss, grads, valid_error,
                   test_error, is_best, best_error, best_test, hist, histTest,
                   executed, log, written, losses, valModel, prevOpt,
                   prevName>>

\* The body of the loop starts: adjust_learning_rate, then train's preamble.
AdjustLearningRate ==
    /\ pc = "loop"
    /\ ~LoopExhausted(epoch, opt)
    /\ executed' = Append(executed, epoch)
    /\ log' = <<"adjust_learning_rate">>
    /\ idx' = 0
    /\ pc' = "train"
    /\ UNCHANGED <<fs, cuda, runs, fsAtStart, failedAt, opt, model_name,
                   save_folder, resume_file, model, optimizer, criterion,
                   device, start_epoch, epoch, loss, grads, valid_error,
                   test_error, is_best, best_error, best_test, hist, histTest,
                   written, losses, valModel, prevOpt, prevName>>

\* train: the forward pass of the next batch and its loss.
TrainForward ==
    /\ pc = "train"
    /\ idx < NumBatches(opt)
    /\ loss' = BatchLoss(opt, criterion)
    /\ losses' = losses \cup {loss'}
    /\ log' = Append(log, "forward")
    /\ pc' = "zero_grad"
    /\ UNCHANGED <<fs, cuda, runs, fsAtStart, failedAt, opt, model_name,
                   save_folder, resume_file, model, optimizer, criterion,
                   device, start_epoch, epoch, idx, grads, valid_error,
                   test_error, is_best, best_error, best_test, hist, histTest,
                   executed, written, valModel, prevOpt, prevName>>

\* train: optimizer.zero_grad()
ZeroGrad ==
    /\ pc = "zero_grad"
    /\ grads' = "zero"
    /\ log' = Append(log, "zero_grad")
    /\ pc' = "backward"
    /\ UNCHANGED <<fs, cuda, runs, fsAtStart, failedAt, opt, model_name,
                   save_folder, resume_file, model, optimizer, criterion,
                   device, start_epoch, epoch, idx, loss, valid_error,
                   test_error, is_best, best_error, best_test, hist, histTest,
                   executed, written, losses, valModel, prevOpt, prevName>>

\* train: loss.backward()
Backward ==
    /\ pc = "backward"
    /\ grads' = "fresh"
    /\ log' = Append(log, "backward")
    /\ pc' = "step"
    /\ UNCHANGED <<fs, cuda, runs, fsAtStart, failedAt, opt, model_name,
                   save_folder, resume_file, model, optimizer, criterion,
                   device, start_epoch, epoch, idx, loss, valid_error,
                   test_error, is_best, best_error, best_test, hist, histTest,
                   executed, written, losses, valModel, prevOpt, prevName>>

\* train: optimizer.step(), and on to the next batch
OptimizerStep ==
    /\ pc = "step"
    /\ model' = model + 1
    /\ optimizer' = optimizer + 1
    /\ grads' = "stale"
    /\ log' = Append(log, "step")
    /\ idx' = idx + 1
    /\ pc' = "train"
    /\ UNCHANGED <<fs, cuda, runs, fsAtStart, failedAt, opt, model_name,
                   save_folder, resume_file, criterion, device, start_epoch,
                   epoch, loss, valid_error, test_error, is_best, best_error,
                   best_test, hist, histTest, executed, written, losses,
                   valModel, prevOpt, prevName>>

\* Mutation of TrainReturn: train may return before the last batch.
TrainReturnEarly ==
    /\ pc = "train"
    /\ idx >= NumBatches(opt) - 1
    /\ pc' = "validate"
    /\ UNCHANGED <<fs, cuda, runs, fsAtStart, failedAt, opt, model_name,
                   save_folder, resume_file, model, optimizer, criterion,
                   device, start_epoch, epoch, idx, loss, grads, valid_error,
                   test_error, is_best, best_error, best_test, hist,
                   histTest, executed, log, written, losses, valModel,
                   prevOpt, prevName>>

\* train returns: the loader is exhausted.
TrainReturn ==
    /\ pc = "train"
    /\ idx >= NumBatches(opt)
    /\ pc' = "validate"
    /\ UNCHANGED <<fs, cuda, runs, fsAtStart, failedAt, opt, model_name,
                   save_folder, resume_file, model, optimizer, criterion,
                   device, start_epoch, epoch, idx, loss, grads, valid_error,
                   test_error, is_best, best_error, best_test, hist, histTest,
                   executed, log, written, losses, valModel, prevOpt,
                   prevName>>

\* valid_error = validate(val_loader, model)
ValidateVal ==
    /\ pc = "validate"
    /\ IF ValidateRaises(cuda)
         THEN /\ Raise("validate")
              /\ UNCHANGED <<valid_error, hist, valModel, log>>
         ELSE \E m \in MAEValues :
              /\ valid_error' = EvalResult(m)
              /\ hist' = Append(hist, m)
              /\ valModel' = model
              /\ log' = Append(log, "validate")
              /\ pc' = "update_best"
              /\ UNCHANGED failedAt
    /\ UNCHANGED <<fs, cuda, runs, fsAtStart, opt, model_name, save_folder,
                   resume_file, model, optimizer, criterion, device,
                   start_epoch, epoch, idx, loss, grads, test_error, is_best,
                   best_error, best_test, histTest, executed, written, losses,
                   prevOpt, prevName>>

\* is_best and best_error are updated from valid_error[0]
UpdateBest ==
    /\ pc = "update_best"
    /\ is_best' = IsBest(valid_error, best_error)
    /\ best_error' = PyMin(valid_error[1], best_error)
    /\ pc' = "test"
    /\ UNCHANGED <<fs, cuda, runs, fsAtStart, failedAt, opt, model_name,
                   save_folder, resume_file, model, optimizer, criterion,
                   device, start_epoch, epoch, idx, loss, grads, valid_error,
                   test_error, best_test, hist, histTest, executed, log,
                   written, losses, valModel, prevOpt, prevName>>

\* test_error = validate(test_loader, model)
ValidateTest ==
    /\ pc = "test"
    /\ IF ValidateRaises(cuda)
         THEN /\ Raise("validate")
              /\ UNCHANGED <<test_error, histTest, log>>
         ELSE \E m \in TestValues :
              /\ test_error' = EvalResult(m)
              /\ histTest' = Append(histTest, test_error')
              /\ log' = Append(log, "test")
              /\ pc' = "save_periodic"
              /\ UNCHANGED failedAt
    /\ UNCHANGED <<fs, cuda, runs, fsAtStart, opt, model_name, save_folder,
                   resume_file, model, optimizer, criterion, device,
                   start_epoch, epoch, idx, loss, grads, valid_error, is_best,
                   best_error, best_test, hist, executed, written, losses,
                   valModel, prevOpt, prevName>>

\* The periodic checkpoint of the epoch, when one is due.
SavePeriodic ==
    /\ pc = "save_periodic"
    /\ IF PeriodicDue(epoch, opt)
         THEN /\ fs' = TorchSave(fs, CkptFile(save_folder, epoch),
                                 PeriodicContents(epoch, model, optimizer))
              /\ written' = Append(written,
                     [file |-> CkptFile(save_folder, epoch), epoch |-> epoch,
                      obj |-> PeriodicContents(epoch, model, optimizer)])
              /\ log' = Append(log, "save_periodic")
         ELSE UNCHANGED <<fs, written, log>>
    /\ pc' = "save_best"
    /\ UNCHANGED <<cuda, runs, fsAtStart, failedAt, opt, model_name,
                   save_folder, resume_file, model, optimizer, criterion,
                   device, start_epoch, epoch, idx, loss, grads, valid_error,
                   test_error, is_best, best_error, best_test, hist, histTest,
                   executed, losses, valModel, prevOpt, prevName>>

\* The best checkpoint and best_test, when the epoch is the best so far;
\* then the loop goes on to the next epoch.
SaveBest ==
    /\ pc = "save_best"
    /\ IF is_best
         THEN /\ best_test' = test_error
              /\ fs' = TorchSave(fs, BestFile(save_folder),
                                 BestContents(epoch, model, best_error))
              /\ written' = Append(written,
                     [file |-> BestFile(save_folder), epoch |-> epoch,
                      obj |-> BestContents(epoch, model, best_error)])
              /\ log' = Append(log, "save_best")
         ELSE UNCHANGED <<best_test, fs, written, log>>
    /\ epoch' = epoch + 1
    /\ pc' = "loop"
    /\ UNCHANGED <<cuda, runs, fsAtStart, failedAt, opt, model_name,
                   save_folder, resume_file, model, optimizer, criterion,
                   device, start_epoch, idx, loss, grads, valid_error,
                   test_error, is_best, best_error, hist, histTest, executed,
                   losses, valModel, prevOpt, prevName>>

Next ==
    \/ StartFresh
    \/ StartResumeOwn
    \/ StartResumeExternal
    \/ StartResumeBare
    \/ SetModel
    \/ Resume
    \/ Finish
    \/ AdjustLearningRate
    \/ TrainForward
    \/ ZeroGrad
    \/ Backward
    \/ OptimizerStep
    \/ TrainReturn
    \/ ValidateVal
    \/ UpdateBest
    \/ ValidateTest
    \/ SavePeriodic
    \/ SaveBest

Spec == Init /\ [][Next]_vars

(***************************************************************************)
(* The option parser on its own: command lines are parsed one after the    *)
(* other, and the folder name of each is kept for the next.                *)
(***************************************************************************)
\* A checkpoint path inside the save tree of a run named runA.
SavedPath ==
    << <<".">>, <<"save">>, <<"AgeDB", "_", "models">>, <<"runA">>,
       CkptName(100) >>

\* The command lines that differ from o in one option.
Variants(o) ==
    { [o EXCEPT !.print_freq = 20], [o EXCEPT !.save_freq = 50],
      [o EXCEPT !.save_curr_freq = 2], [o EXCEPT !.batch_size = 64],
      [o EXCEPT !.num_workers = 4], [o EXCEPT !.epochs = 40],
      [o EXCEPT !.learning_rate = 200], [o EXCEPT !.lr_decay_rate = 5000],
      [o EXCEPT !.weight_decay = 10], [o EXCEPT !.momentum = 0],
      [o EXCEPT !.alpha = 1000], [o EXCEPT !.loss = <<"ConR">>],
      [o EXCEPT !.trial = <<"1", "_", "trial", "_", "0">>],
      [o EXCEPT !.aug = DefaultOptions.aug \o <<"_", "trial", "_", "1">>],
      [o EXCEPT !.data_folder = << <<"data">> >>],
      [o EXCEPT !.model = <<"resnet50">>],
      [o EXCEPT !.resume = SavedPath],
      [o EXCEPT !.resume = PathJoin(ExternalDir, BestName)],
      [o EXCEPT !.resume = <<BestName>>] }

\* The command lines of the parser specification: the defaults with at
\* most two options changed.
ParseOptions ==
    {DefaultOptions} \cup Variants(DefaultOptions)
      \cup UNION { Variants(o) : o \in Variants(DefaultOptions) }

InitParse ==
    /\ fs = <<>>
    /\ cuda = TRUE
    /\ runs = 0
    /\ fsAtStart = <<>>
    /\ pc = "parse"
    /\ failedAt = ""
    /\ opt \in ParseOptions
    /\ model_name = <<>> /\ save_folder = <<>> /\ resume_file = <<>>
    /\ model = None /\ optimizer = None
    /\ criterion = "" /\ device = ""
    /\ start_epoch = None /\ epoch = None /\ idx = None
    /\ loss = NoLoss /\ grads = "stale"
    /\ valid_error = NoResult /\ test_error = NoResult
    /\ is_best = FALSE /\ best_error = None /\ best_test = NoResult
    /\ hist = <<>> /\ histTest = <<>> /\ executed = <<>> /\ log = <<>>
    /\ written = <<>> /\ losses = {} /\ valModel = None
    /\ prevOpt = <<>> /\ prevName = <<>>

\* parse_option on the current command line.
ParseOption ==
    /\ pc = "parse"
    /\ IF ParseRaises(opt)
         THEN /\ Raise("parse_option")
              /\ UNCHANGED <<model_name, save_folder>>
         ELSE /\ model_name' = ModelName(opt)
              /\ save_folder' = SaveFolder(opt)
              /\ pc' = "parsed"
              /\ UNCHANGED failedAt
    /\ runs' = runs + 1
    /\ UNCHANGED <<fs, cuda, fsAtStart, opt, resume_file, model, optimizer,
                   criterion, device, start_epoch, epoch, idx, loss, grads,
                   valid_error, test_error, is_best, best_error, best_test,
                   hist, histTest, executed, log, written, losses, valModel,
                   prevOpt, prevName>>

\* The next command line; the last one and its folder are remembered.
NextCommandLine ==
    /\ pc \in {"parsed", "Failed"}
    /\ runs < MaxRuns
    /\ prevOpt' = opt
    /\ prevName' = save_folder
    /\ opt' \in ParseOptions
    /\ model_name' = <<>>
    /\ save_folder' = <<>>
    /\ failedAt' = ""
    /\ pc' = "parse"
    /\ UNCHANGED <<fs, cuda, runs, fsAtStart, resume_file, model, optimizer,
                   criterion, device, start_epoch, epoch, idx, loss, grads,
                   valid_error, test_error, is_best, best_error, best_test,
                   hist, histTest, executed, log, written, losses, valModel>>

NextParse == ParseOption \/ NextCommandLine

SpecParse == InitParse /\ [][NextParse]_vars

(***************************************************************************)
(* Vocabulary of the properties.                                           *)
(***************************************************************************)
Last(seq) == seq[Len(seq)]
IsPrefix(a, b) == Len(a) <= Len(b) /\ a = SubSeq(b, 1, Len(a))

\* The process is between two epochs or has returned: every epoch it
\* entered has run to the end of the loop body.
BetweenEpochs == pc \in {"loop", "Done"}

\* The number of epochs that have run to the end of the loop body.
Completed ==
    IF BetweenEpochs \/ Len(executed) = 0 THEN Len(executed)
    ELSE Len(executed) - 1

\* The writes of this run to the best checkpoint / to periodic checkpoints.
BestWrites == { w \in 1..Len(written) : Last(written[w].file) = BestName }
PeriodicWrites == (1..Len(written)) \ BestWrites
WroteBestAt(e) == \E w \in BestWrites : written[w].epoch = e
WrotePeriodicAt(e) ==
    \E w \in PeriodicWrites :
        written[w].epoch = e /\ written[w].file = CkptFile(save_folder, e)

\* The i-th validation MAE of the run is strictly less than every earlier
\* one of the run.
StrictlyImproves(i) == \A j \in 1..(i - 1) : hist[i] < hist[j]
\* ... and less than the initial best_error, 1e10.
ImprovesOnTracked(i) == hist[i] < BestErrorInit /\ StrictlyImproves(i)

MinOf(S) == CHOOSE x \in S : \A y \in S : x <= y
MaxOf(S) == CHOOSE x \in S : \A y \in S : x >= y
HistMin(i) == MinOf({ hist[j] : j \in 1..i })

\* This run was given a resume path that parse_option accepts.
Resumed == runs > 0 /\ Len(opt.resume) > 0 /\ ~ParseRaises(opt)
\* This run has no resume path, or one whose file holds every key read.
Resumable ==
    /\ runs > 0
    /\ Len(opt.resume) > 0 => ~ResumeRaises(resume_file)

(***************************************************************************)
(* C1.  The best checkpoint is written at an epoch if and only if the      *)
(* epoch's validation MAE is strictly less than that of every earlier      *)
(* epoch of the run (so the first executed epoch always writes it), and    *)
(* the best_error stored is the minimum validation MAE seen so far.        *)
(***************************************************************************)
C1_BestWrittenIffStrictlyLess ==
    \A i \in 1..Completed :
        /\ WroteBestAt(executed[i]) <=> StrictlyImproves(i)
        /\ \A w \in BestWrites :
               written[w].epoch = executed[i]
                 => written[w].obj.best_error = HistMin(i)

\* What the loop does instead: the comparison is against best_error, which
\* starts at 1e10, so an epoch also has to be below 1e10 to write.
C1_BestWrittenIffBelowTracked ==
    \A i \in 1..Completed :
        /\ WroteBestAt(executed[i]) <=> ImprovesOnTracked(i)
        /\ \A w \in BestWrites :
               written[w].epoch = executed[i]
                 => written[w].obj.best_error = HistMin(i)

(***************************************************************************)
(* C2.  A run resumed from a checkpoint with stored epoch E executes       *)
(* exactly the epochs E+1 .. N in increasing order, each once, and then    *)
(* returns; a run without a resume path executes exactly 1 .. N; with      *)
(* E >= N no epoch is executed and no checkpoint is written.               *)
(***************************************************************************)
\* The first epoch of the run, as the claim gives it.
FirstEpoch == IF Len(opt.resume) > 0 THEN resume_file.epoch + 1 ELSE 1

C2_RunExecutesItsEpochs ==
    Resumable =>
        /\ pc # "Failed"
        /\ \A i \in 1..Len(executed) : executed[i] = FirstEpoch + i - 1
        /\ Len(executed) > 0 => Last(executed) <= opt.epochs
        /\ pc = "Done" =>
             Len(executed) = IF FirstEpoch > opt.epochs THEN 0
                             ELSE opt.epochs - FirstEpoch + 1
        /\ FirstEpoch > opt.epochs => executed = <<>> /\ written = <<>>

\* The part of it that does hold: the order of the epochs, and their number
\* when the run does return.
C2_EpochsInOrder ==
    Resumable =>
        /\ \A i \in 1..Len(executed) : executed[i] = FirstEpoch + i - 1
        /\ Len(executed) > 0 => Last(executed) <= opt.epochs
        /\ pc = "Done" =>
             Len(executed) = IF FirstEpoch > opt.epochs THEN 0
                             ELSE opt.epochs - FirstEpoch + 1
        /\ FirstEpoch > opt.epochs => executed = <<>> /\ written = <<>>

(***************************************************************************)
(* C3.  A run resumed from a checkpoint that lacks one of the keys model,  *)
(* optimizer, epoch fails before any epoch is executed and before any      *)
(* checkpoint is written; every best checkpoint is such a file, also the   *)
(* ones the program wrote itself.                                          *)
(***************************************************************************)
\* The schema of a best checkpoint.
IsBestSchema(ck) == DOMAIN ck = {"epoch", "model", "best_error"}

C3_ResumeWithoutKeysFails ==
    /\ \A path \in DOMAIN fs :
           Last(path) = BestName =>
               IsBestSchema(fs[path]) /\ ResumeRaises(fs[path])
    /\ runs > 0 /\ Len(opt.resume) > 0 /\ ResumeRaises(resume_file) =>
           /\ pc \in {"set_model", "resume", "Failed"}
           /\ pc = "Failed" => failedAt \in {"parse_option", "resume"}
           /\ Resumed /\ pc = "Failed" => failedAt = "resume"
           /\ executed = <<>>
           /\ written = <<>>
           /\ fs = fsAtStart

\* A run resumed from a best checkpoint the program wrote has failed.
C3_Witness ==
    /\ Resumed
    /\ opt.resume \in DOMAIN fsAtStart
    /\ Last(opt.resume) = BestName
    /\ pc = "Failed" /\ failedAt = "resume"

(***************************************************************************)
(* C4.  The periodic checkpoint of epoch e is written if and only if e is  *)
(* a multiple of save_freq, whether or not the epoch is a best epoch;      *)
(* when the run returns, the periodic checkpoints it wrote are those of    *)
(* { e \in start_epoch .. N : e mod save_freq = 0 }; each is written once  *)
(* and is not overwritten by a later epoch or by the best checkpoint.      *)
(***************************************************************************)
C4_PeriodicCheckpoints ==
    /\ \A i \in 1..Completed :
           WrotePeriodicAt(executed[i]) <=> executed[i] % opt.save_freq = 0
    /\ \A w \in PeriodicWrites :
           /\ written[w].file = CkptFile(save_folder, written[w].epoch)
           /\ written[w].file \in DOMAIN fs
           /\ fs[written[w].file] = written[w].obj
           /\ \A v \in PeriodicWrites :
                  written[v].file = written[w].file => v = w
    /\ pc = "Done" =>
           { written[w].epoch : w \in PeriodicWrites }
             = { e \in start_epoch..opt.epochs : e % opt.save_freq = 0 }

\* A run has returned after an epoch that wrote both checkpoints and an
\* epoch that wrote no periodic one.
C4_Witness ==
    /\ pc = "Done"
    /\ \E i \in 1..Len(executed) :
           WrotePeriodicAt(executed[i]) /\ WroteBestAt(executed[i])
    /\ \E i \in 1..Len(executed) : ~WrotePeriodicAt(executed[i])

(***************************************************************************)
(* C5.  With a loss name outside the recognized set, model assembly and    *)
(* every training step complete without an error and the loss of every     *)
(* batch is the plain L1 loss of (output, label); no recognized name       *)
(* other than FAR and FAR-EXP makes the criterion anything but L1.         *)
(***************************************************************************)
PlainL1 == [fn |-> "L1Loss", reg |-> ""]

C5_UnknownLossIsL1 ==
    /\ opt.loss \notin RecognizedNames =>
           /\ failedAt \notin {"set_model", "train"}
           /\ criterion \in {"", "L1Loss"}
           /\ losses \subseteq {PlainL1}
           /\ pc \in {"zero_grad", "backward", "step"} => loss = PlainL1
    /\ opt.loss \in RecognizedNames \ FarNames => criterion \in {"", "L1Loss"}
    /\ pc \notin {"Idle", "set_model", "Failed", "parse", "parsed"}
           => criterion # ""

\* A run with an unknown loss name has trained a whole epoch.
C5_Witness ==
    /\ opt.loss \notin RecognizedNames
    /\ pc = "validate"
    /\ losses = {PlainL1}
    /\ criterion = "L1Loss"

(***************************************************************************)
(* C6.  On a host without an accelerator the run falls back to the CPU:    *)
(* model assembly, every training batch and every validation and test      *)
(* pass complete, and the run returns without an error.                    *)
(***************************************************************************)
C6_CpuRunDoesNotFail ==
    ~cuda => failedAt \notin {"set_model", "train", "validate"}

(***************************************************************************)
(* C8.  At the end of every epoch best_test is the test result of the      *)
(* most recent epoch whose validation MAE strictly improved on all         *)
(* earlier ones, and the tuple of five 1e10 before any such epoch.         *)
(***************************************************************************)
Improving == { i \in 1..Completed : StrictlyImproves(i) }
ImprovingOnTracked == { i \in 1..Completed : ImprovesOnTracked(i) }

C8_BestTestOfLastImprovement ==
    BetweenEpochs =>
        best_test = IF Improving = {} THEN SentinelResult
                    ELSE histTest[MaxOf(Improving)]

\* The same with the improvement measured as the loop measures it, against
\* best_error, which starts at 1e10.
C8_BestTestOfLastTrackedImprovement ==
    BetweenEpochs =>
        /\ best_test = IF ImprovingOnTracked = {} THEN SentinelResult
                       ELSE histTest[MaxOf(ImprovingOnTracked)]
        /\ ImprovingOnTracked # {} =>
               WroteBestAt(executed[MaxOf(ImprovingOnTracked)])

(***************************************************************************)
(* C9.  In every epoch the steps occur in this order, each once: the       *)
(* learning-rate adjustment; one pass over the training batches with       *)
(* zero_grad, backward and one optimizer step per batch; one validation    *)
(* pass; one test pass; then the checkpoint writes.  The parameters in     *)
(* best.pth are those the validation pass ran on, which produced the       *)
(* best_error stored with them.                                            *)
(***************************************************************************)
RECURSIVE BatchSteps(_)
BatchSteps(n) ==
    IF n = 0 THEN <<>>
    ELSE <<"forward", "zero_grad", "backward", "step">> \o BatchSteps(n - 1)

EpochSteps ==
    <<"adjust_learning_rate">> \o BatchSteps(NumBatches(opt))
      \o <<"validate", "test">>

SaveSteps ==
    { <<>>, <<"save_periodic">>, <<"save_best">>,
      <<"save_periodic", "save_best">> }

C9_StepsInOrder ==
    /\ \E tail \in SaveSteps : IsPrefix(log, EpochSteps \o tail)
    /\ BetweenEpochs /\ Len(executed) > 0 =>
           /\ \E tail \in SaveSteps : log = EpochSteps \o tail
           /\ WroteBestAt(Last(executed)) =>
                  \E w \in BestWrites :
                      /\ written[w].epoch = Last(executed)
                      /\ written[w].obj.model = valModel
                      /\ written[w].obj.model = model
                      /\ written[w].obj.best_error = Last(hist)
                      /\ fs[written[w].file] = written[w].obj
    /\ pc \in {"update_best", "test", "save_periodic", "save_best"} =>
           valModel = model

\* An epoch with more than one batch has ended with both checkpoints.
C9_Witness ==
    /\ BetweenEpochs
    /\ NumBatches(opt) > 1
    /\ log = EpochSteps \o <<"save_periodic", "save_best">>

(***************************************************************************)
(* C10.  On a resumed run the best-error tracking restarts from 1e10 and   *)
(* the output folder is the parent directory of the resume checkpoint, so  *)
(* the first resumed epoch with a validation MAE below 1e10 writes         *)
(* best.pth into that folder, replacing a best checkpoint left there by    *)
(* the interrupted run even when that one had a lower validation MAE.      *)
(***************************************************************************)
\* The directory a file lies in.
ParentDir(path) == SubSeq(path, 1, Len(path) - 1)

\* The i-th epoch of the run is its first with a validation MAE below 1e10.
FirstBelowSentinel(i) ==
    /\ hist[i] < BestErrorInit
    /\ \A j \in 1..(i - 1) : hist[j] >= BestErrorInit

\* The run wrote best.pth into `folder` at its i-th epoch, and nothing has
\* replaced it while that epoch is the last one completed.
WroteBestInto(folder, i) ==
    \E w \in BestWrites :
        /\ written[w].epoch = executed[i]
        /\ written[w].file = BestFile(folder)
        /\ written[w].obj.best_error = hist[i]
        /\ i = Completed => fs[BestFile(folder)] = written[w].obj

C10_BestRestartsInParentDirectory ==
    Resumed /\ pc # "Failed" =>
        /\ save_folder = ParentDir(opt.resume)
        /\ start_epoch # None /\ executed = <<>> => best_error = BestErrorInit
        /\ \A i \in 1..Completed :
               FirstBelowSentinel(i)
                 => WroteBestInto(ParentDir(opt.resume), i)

\* The folder is model_path joined with the NAME of the parent directory,
\* which is the parent directory for a checkpoint of the save tree.
C10_BestRestartsInNamedFolder ==
    Resumed /\ pc # "Failed" =>
        /\ save_folder = PathJoin(ModelPath(opt), ParentName(opt.resume))
        /\ opt.resume \in DOMAIN fsAtStart
             => save_folder = ParentDir(opt.resume)
        /\ start_epoch # None /\ executed = <<>> => best_error = BestErrorInit
        /\ \A i \in 1..Completed :
               FirstBelowSentinel(i) => WroteBestInto(save_folder, i)

\* A resumed run has replaced the best checkpoint it found in its folder
\* by one with a higher validation MAE.
C10_Witness ==
    /\ Resumed
    /\ BetweenEpochs
    /\ BestWrites # {}
    /\ BestFile(save_folder) \in DOMAIN fsAtStart
    /\ fsAtStart[BestFile(save_folder)].best_error
         < fs[BestFile(save_folder)].best_error

(***************************************************************************)
(* C7.  The folder name embeds every option of the run configuration:      *)
(* two configurations that differ in at least one option (print or save    *)
(* frequency, worker count, dataset path and resume path included) get     *)
(* different folder names, and identical configurations get the same.      *)
(***************************************************************************)
\* Two command lines have been parsed without an error.
BothParsed == pc = "parsed" /\ prevName # <<>>

C7_NameEmbedsEveryOption ==
    BothParsed =>
        /\ opt # prevOpt => save_folder # prevName
        /\ opt = prevOpt => save_folder = prevName

\* The options parse_option formats into the name.
Embedded(o) ==
    <<o.loss, o.dataset, o.model, o.epochs, o.learning_rate,
      o.lr_decay_rate, o.weight_decay, o.alpha, o.momentum, o.batch_size,
      o.aug, o.trial>>
NoResume(o) == Len(o.resume) = 0

\* What holds: the name is made of the embedded options alone, or, with a
\* resume path, of the name of its parent directory alone; the embedded
\* options are told apart when the free strings among them are the same.
C7_NameEmbedsHyperparameters ==
    BothParsed =>
        /\ opt = prevOpt => save_folder = prevName
        /\ NoResume(opt) /\ NoResume(prevOpt)
             /\ Embedded(opt) = Embedded(prevOpt)
             => save_folder = prevName
        /\ NoResume(opt) /\ NoResume(prevOpt)
             /\ Embedded(opt) # Embedded(prevOpt)
             /\ opt.loss = prevOpt.loss /\ opt.aug = prevOpt.aug
             /\ opt.trial = prevOpt.trial
             => save_folder # prevName
        /\ ~NoResume(opt) /\ ~NoResume(prevOpt)
             /\ ParentName(opt.resume) = ParentName(prevOpt.resume)
             => save_folder = prevName

\* Two command lines that differ in save_freq and in nothing the name
\* embeds were given the same folder.
C7_Witness ==
    /\ BothParsed
    /\ opt.save_freq # prevOpt.save_freq
    /\ NoResume(opt) /\ NoResume(prevOpt)
    /\ Embedded(opt) = Embedded(prevOpt)
    /\ save_folder = prevName

====
